---- MODULE Spec2Model ----
(***************************************************************************)
(* A model of the clone helper (src/src/clone.js) and of the DataFormat    *)
(* formatters (src/src/dataFormat.js).                                     *)
(*                                                                         *)
(* Representation.                                                         *)
(*  - A JavaScript string is a Text: a sequence of one-character strings.  *)
(*    The two unit characters of largeNumberFormat are written "Yi"        *)
(*    (U+4EBF, 10^8) and "Wan" (U+4E07, 10^4), one token each.             *)
(*  - A JavaScript number is a Num: NaN, or a sign with the decimal digits *)
(*    of its integer and fractional parts, in normal form (no leading      *)
(*    zeros in int except the single digit 0, no trailing zeros in frac).  *)
(*    The digits are those Number.prototype.toString prints, which is the  *)
(*    exact value of the double for every number of at most 15 significant *)
(*    digits; every input the model draws is within that range.            *)
(***************************************************************************)
EXTENDS Integers, Sequences, FiniteSets, TLC

\* call:    the operation last called and its arguments
\* argPre:  the objects of the caller passed to it by reference (the option
\*          objects, the clone source), as they were when it was called
\* argPost: the same objects when it returned
\* result:  what it returned or threw
\* locale:  the group separator of the host's default locale
\* tz:      the host's time zone, in minutes east of UTC
VARIABLES call, argPre, argPost, result, locale, tz

vars == <<call, argPre, argPost, result, locale, tz>>

-----------------------------------------------------------------------------
(* Digits and texts *)

Digit == 0..9

DigitChars == <<"0", "1", "2", "3", "4", "5", "6", "7", "8", "9">>

DigitChar(d) == DigitChars[d + 1]

IsDigitChar(c) == \E d \in Digit : DigitChars[d + 1] = c

CharDigit(c) == CHOOSE d \in Digit : DigitChars[d + 1] = c

DigitsToText(ds) == [i \in 1..Len(ds) |-> DigitChar(ds[i])]

TextToDigits(t) == [i \in 1..Len(t) |-> CharDigit(t[i])]

AllDigits(t) == \A i \in 1..Len(t) : IsDigitChar(t[i])

Zeros(n) == [i \in 1..n |-> 0]

\* new Array(n + 1).join('0'): n copies of "0"
ZeroText(n) == [i \in 1..n |-> "0"]

Min(a, b) == IF a < b THEN a ELSE b

Max(a, b) == IF a > b THEN a ELSE b

\* String.prototype.substr(start, length) for 0 <= start
Substr(t, start, length) ==
    SubSeq(t, Min(start, Len(t)) + 1, Min(Len(t), start + Max(length, 0)))

\* String.prototype.substr(start) for 0 <= start
SubstrFrom(t, start) == SubSeq(t, Min(start, Len(t)) + 1, Len(t))

\* String.prototype.slice(0, -n) for n >= 1
SliceHead(t, n) == SubSeq(t, 1, Max(Len(t) - n, 0))

\* String.prototype.slice(-n) for n >= 1
SliceTail(t, n) == SubSeq(t, Max(Len(t) - n, 0) + 1, Len(t))

\* index of the first occurrence of character c in t, 0 when there is none
IndexOf(t, c) ==
    IF \E i \in 1..Len(t) : t[i] = c
    THEN CHOOSE i \in 1..Len(t) : t[i] = c /\ \A j \in 1..(i - 1) : t[j] # c
    ELSE 0

\* String.prototype.split('.')[0]
SplitFirst(t) == IF IndexOf(t, ".") = 0 THEN t ELSE SubSeq(t, 1, IndexOf(t, ".") - 1)

\* String.prototype.split('.')[1], <<>> standing for undefined or ''
SplitSecond(t) ==
    LET rest == IF IndexOf(t, ".") = 0 THEN <<>> ELSE SubSeq(t, IndexOf(t, ".") + 1, Len(t))
    IN SplitFirst(rest)

-----------------------------------------------------------------------------
(* Numbers *)

RECURSIVE StripLeadingZeros(_)
StripLeadingZeros(ds) ==
    IF Len(ds) > 1 /\ ds[1] = 0 THEN StripLeadingZeros(Tail(ds))
    ELSE IF ds = <<>> THEN <<0>> ELSE ds

RECURSIVE StripTrailingZeros(_)
StripTrailingZeros(ds) ==
    IF Len(ds) > 0 /\ ds[Len(ds)] = 0 THEN StripTrailingZeros(SubSeq(ds, 1, Len(ds) - 1))
    ELSE ds

NaN == [nan |-> TRUE, neg |-> FALSE, int |-> <<0>>, frac |-> <<>>]

MkNum(neg, int, frac) ==
    [nan |-> FALSE, neg |-> neg, int |-> StripLeadingZeros(int), frac |-> StripTrailingZeros(frac)]

IsZero(x) == ~x.nan /\ x.int = <<0>> /\ x.frac = <<>>

\* lexicographic comparison of two digit sequences of the same length
RECURSIVE DigitsLess(_, _)
DigitsLess(a, b) ==
    IF a = <<>> \/ b = <<>> THEN FALSE
    ELSE IF a[1] # b[1] THEN a[1] < b[1]
    ELSE DigitsLess(Tail(a), Tail(b))

\* |a| < |b| for two numbers that are not NaN
MagLess(a, b) ==
    IF Len(a.int) # Len(b.int) THEN Len(a.int) < Len(b.int)
    ELSE IF a.int # b.int THEN DigitsLess(a.int, b.int)
    ELSE LET n == Max(Len(a.frac), Len(b.frac))
         IN DigitsLess(a.frac \o Zeros(n - Len(a.frac)), b.frac \o Zeros(n - Len(b.frac)))

\* the relational operator a < b of JavaScript on numbers (false when either is NaN)
NumLess(a, b) ==
    IF a.nan \/ b.nan THEN FALSE
    ELSE IF IsZero(a) /\ IsZero(b) THEN FALSE
    ELSE IF a.neg /\ ~b.neg THEN TRUE
    ELSE IF ~a.neg /\ b.neg THEN FALSE
    ELSE IF a.neg THEN MagLess(b, a)
    ELSE MagLess(a, b)

\* Math.abs
MathAbs(x) == IF x.nan THEN x ELSE [x EXCEPT !.neg = FALSE]

\* a digit sequence plus one
RECURSIVE Increment(_)
Increment(ds) ==
    IF ds = <<>> THEN <<1>>
    ELSE IF ds[Len(ds)] < 9 THEN [ds EXCEPT ![Len(ds)] = @ + 1]
    ELSE Append(Increment(SubSeq(ds, 1, Len(ds) - 1)), 0)

\* Math.round: to the nearest integer, a tie going towards +Infinity
MathRound(x) ==
    IF x.nan THEN x
    ELSE LET up == IF x.frac = <<>> THEN FALSE
                   ELSE IF ~x.neg THEN x.frac[1] >= 5
                   ELSE x.frac[1] > 5 \/ (x.frac[1] = 5 /\ Len(x.frac) > 1)
         IN MkNum(x.neg, IF up THEN Increment(x.int) ELSE x.int, <<>>)

\* x * 10^k for k >= 0 (the decimal point moved k places right)
ShiftLeft(x, k) ==
    IF x.nan THEN x
    ELSE LET f == x.frac \o Zeros(k - Len(x.frac))
         IN MkNum(x.neg, x.int \o SubSeq(f, 1, k), SubSeq(f, k + 1, Len(f)))

\* x / 10^k for k >= 0 (the decimal point moved k places left)
ShiftRight(x, k) ==
    IF x.nan THEN x
    ELSE LET i == Zeros(k - Len(x.int)) \o x.int
         IN MkNum(x.neg, SubSeq(i, 1, Len(i) - k), SubSeq(i, Len(i) - k + 1, Len(i)) \o x.frac)

-----------------------------------------------------------------------------
(* Number <-> string conversions of the language *)

RECURSIVE NatToDigits(_)
NatToDigits(n) == IF n < 10 THEN <<n>> ELSE Append(NatToDigits(n \div 10), n % 10)

RECURSIVE DigitsToNat(_)
DigitsToNat(ds) ==
    IF ds = <<>> THEN 0 ELSE 10 * DigitsToNat(SubSeq(ds, 1, Len(ds) - 1)) + ds[Len(ds)]

\* the number with the integer value k
IntNum(k) == MkNum(k < 0, NatToDigits(IF k < 0 THEN -k ELSE k), <<>>)

\* the integer a small integral Num stands for (ToInteger)
NumToInt(x) == IF x.nan THEN 0 ELSE IF x.neg THEN -DigitsToNat(x.int) ELSE DigitsToNat(x.int)

RECURSIVE LeadingZeros(_)
LeadingZeros(ds) == IF ds # <<>> /\ ds[1] = 0 THEN 1 + LeadingZeros(Tail(ds)) ELSE 0

\* d[.ddd]e<sign><exponent>: the exponent form of Number.prototype.toString
ExponentText(sig, esign, e) ==
    <<DigitChar(sig[1])>>
        \o (IF Len(sig) > 1 THEN <<".">> \o DigitsToText(Tail(sig)) ELSE <<>>)
        \o <<"e", esign>> \o DigitsToText(NatToDigits(e))

\* Number.prototype.toString(): plain digits for 1e-6 <= |x| < 1e21, the exponent
\* form outside that range, "NaN", and "0" for both zeros
NumberToString(x) ==
    IF x.nan THEN <<"N", "a", "N">>
    ELSE IF IsZero(x) THEN <<"0">>
    ELSE LET sign == IF x.neg THEN <<"-">> ELSE <<>>
             body ==
                 IF x.int # <<0>>
                 THEN IF Len(x.int) <= 21
                      THEN DigitsToText(x.int)
                               \o (IF x.frac = <<>> THEN <<>> ELSE <<".">> \o DigitsToText(x.frac))
                      ELSE ExponentText(StripTrailingZeros(x.int \o x.frac), "+", Len(x.int) - 1)
                 ELSE IF LeadingZeros(x.frac) < 6
                      THEN <<"0", ".">> \o DigitsToText(x.frac)
                      ELSE ExponentText(SubSeq(x.frac, LeadingZeros(x.frac) + 1, Len(x.frac)),
                                        "-", LeadingZeros(x.frac) + 1)
         IN sign \o body

\* m * 10^e or m / 10^e
Scale(m, eneg, e) == IF eneg THEN ShiftRight(m, e) ELSE ShiftLeft(m, e)

\* the number written with the digit texts ip "." fp and the exponent edigits
ParseDigits(neg, ip, fp, hasExp, eneg, edigits) ==
    IF /\ AllDigits(ip) /\ AllDigits(fp) /\ Len(ip) + Len(fp) > 0
       /\ (hasExp => edigits # <<>> /\ AllDigits(edigits))
    THEN Scale(MkNum(neg, TextToDigits(ip), TextToDigits(fp)), eneg,
               DigitsToNat(TextToDigits(edigits)))
    ELSE NaN

ParseParts(neg, mant, hasExp, expt) ==
    ParseDigits(neg,
        IF IndexOf(mant, ".") = 0 THEN mant ELSE SubSeq(mant, 1, IndexOf(mant, ".") - 1),
        IF IndexOf(mant, ".") = 0 THEN <<>> ELSE SubSeq(mant, IndexOf(mant, ".") + 1, Len(mant)),
        hasExp,
        expt # <<>> /\ expt[1] = "-",
        IF expt # <<>> /\ expt[1] \in {"-", "+"} THEN Tail(expt) ELSE expt)

ParseUnsigned(neg, body) ==
    ParseParts(neg,
        IF IndexOf(body, "e") = 0 THEN body ELSE SubSeq(body, 1, IndexOf(body, "e") - 1),
        IndexOf(body, "e") # 0,
        IF IndexOf(body, "e") = 0 THEN <<>> ELSE SubSeq(body, IndexOf(body, "e") + 1, Len(body)))

\* Number(text): the StringNumericLiteral grammar for decimal literals
\* ([+-] digits [. digits] [e [+-] digits]); the empty string is 0, anything
\* else is NaN
StringToNumber(t) ==
    IF t = <<>> THEN MkNum(FALSE, <<0>>, <<>>)
    ELSE ParseUnsigned(t[1] = "-", IF t[1] \in {"-", "+"} THEN Tail(t) ELSE t)

-----------------------------------------------------------------------------
(* JavaScript values, as the formatters see them *)

Zero == MkNum(FALSE, <<0>>, <<>>)

JsUndefined == [t |-> "undefined", num |-> NaN, txt |-> <<>>, unit |-> <<>>]

JsNull == [t |-> "null", num |-> NaN, txt |-> <<>>, unit |-> <<>>]

JsNumber(x) == [t |-> "number", num |-> x, txt |-> <<>>, unit |-> <<>>]

JsString(s) == [t |-> "string", num |-> NaN, txt |-> s, unit |-> <<>>]

JsBool(b) == [t |-> "boolean", num |-> IF b THEN IntNum(1) ELSE Zero, txt |-> <<>>, unit |-> <<>>]

\* a plain object the formatters never look into
JsObject == [t |-> "object", num |-> NaN, txt |-> <<>>, unit |-> <<>>]

\* the record { value, unit } of largeNumberFormat
JsValueUnit(v, u) == [t |-> "valueUnit", num |-> NaN, txt |-> v, unit |-> u]

\* an uncaught exception of class e
Thrown(e) == [t |-> e, num |-> NaN, txt |-> <<>>, unit |-> <<>>]

IsThrown(v) == v.t \in {"TypeError", "RangeError", "SyntaxError"}

\* typeof v
TypeOf(v) == IF v.t = "null" THEN "object" ELSE v.t

\* ToNumber(v), the coercion of Math.abs, isNaN and the relational operators
ToNumber(v) ==
    CASE v.t = "number" -> v.num
      [] v.t = "boolean" -> v.num
      [] v.t = "null" -> Zero
      [] v.t = "string" -> StringToNumber(v.txt)
      [] OTHER -> NaN

\* ToBoolean(v)
Truthy(v) ==
    CASE v.t = "number" -> ~v.num.nan /\ ~IsZero(v.num)
      [] v.t = "boolean" -> ~IsZero(v.num)
      [] v.t = "string" -> v.txt # <<>>
      [] v.t \in {"undefined", "null"} -> FALSE
      [] OTHER -> TRUE

\* An option argument: absent (t = "undefined"), null, a primitive (prim holds
\* it; reading a property of it gives undefined) or an object with its fields,
\* a missing field being undefined.
OptAbsent ==
    [t |-> "undefined", prim |-> JsUndefined, decimal |-> JsUndefined,
     isRemoveExtraZero |-> JsUndefined, isFillZeroInFront |-> JsUndefined,
     isSplitValueAndUnit |-> JsUndefined, isAttachThousandSymbol |-> JsUndefined]

OptNull == [OptAbsent EXCEPT !.t = "null", !.prim = JsNull]

OptPrimitive(v) == [OptAbsent EXCEPT !.t = "primitive", !.prim = v]

\* the object literal {}
OptEmpty == [OptAbsent EXCEPT !.t = "object", !.prim = JsObject]

OptObject(decimal, removeZero, fillZero, split, thousand) ==
    [t |-> "object", prim |-> JsObject, decimal |-> decimal,
     isRemoveExtraZero |-> removeZero, isFillZeroInFront |-> fillZero,
     isSplitValueAndUnit |-> split, isAttachThousandSymbol |-> thousand]

-----------------------------------------------------------------------------
(* DataFormat.retainDecimal *)

RetainDefaultDecimal == 2

\* lines 168-172: the decimal point put back d places from the right
RetainPoint(value, d) ==
    IF Len(value) > d THEN SliceHead(value, d) \o <<".">> \o SliceTail(value, d)
    ELSE <<"0", ".">> \o ZeroText(d - Len(value)) \o value

\* lines 165-167: newValue, and its text
RetainRound(integerPart, decimalPart, d) ==
    NumberToString(MathRound(StringToNumber(
        integerPart \o Substr(decimalPart, 0, d) \o <<".">> \o SubstrFrom(decimalPart, d))))

\* lines 161-163: the fraction padded with zeros to d digits
RetainPad(decimalPart, d) ==
    IF Len(decimalPart) < d THEN decimalPart \o ZeroText(d - Len(decimalPart)) ELSE decimalPart

\* lines 158-160: the text of the value split at its point
RetainSplit(values, d) ==
    RetainPoint(RetainRound(SplitFirst(values), RetainPad(SplitSecond(values), d), d), d)

\* lines 158-172: the rounding done on the decimal text of x, for d >= 1
RetainText(x, d) == RetainSplit(NumberToString(x), d)

\* lines 174-178
RetainTrim(text, isRemoveExtraZero) ==
    IF Truthy(isRemoveExtraZero) THEN JsString(NumberToString(StringToNumber(text)))
    ELSE JsString(text)

\* lines 153-178, decimal being valid and n its number
RetainValid(value, decimal, n, isRemoveExtraZero) ==
    IF decimal.t = "number" /\ IsZero(n) THEN JsString(NumberToString(MathRound(value.num)))
    ELSE RetainTrim(RetainText(value.num, NumToInt(n)), isRemoveExtraZero)

\* lines 149-151, n being the number decimal converts to
RetainChecked(value, decimal, n, isRemoveExtraZero) ==
    RetainValid(value,
        IF n.nan \/ NumLess(n, Zero) THEN JsNumber(IntNum(RetainDefaultDecimal)) ELSE decimal,
        IF n.nan \/ NumLess(n, Zero) THEN IntNum(RetainDefaultDecimal) ELSE n,
        isRemoveExtraZero)

\* line 144: the default parameter values
RetainDefaulted(value, decimal, isRemoveExtraZero) ==
    RetainChecked(value, decimal, ToNumber(decimal), isRemoveExtraZero)

\* retainDecimal without the type test of lines 145-147
RetainDecimalUnchecked(value, decimalArg, isRemoveExtraZeroArg) ==
    RetainDefaulted(value,
        IF decimalArg.t = "undefined" THEN JsNumber(IntNum(RetainDefaultDecimal))
        ELSE decimalArg,
        IF isRemoveExtraZeroArg.t = "undefined" THEN JsBool(TRUE)
        ELSE isRemoveExtraZeroArg)

retainDecimal(value, decimalArg, isRemoveExtraZeroArg) ==
    IF TypeOf(value) # "number" THEN value
    ELSE RetainDefaulted(value,
             IF decimalArg.t = "undefined" THEN JsNumber(IntNum(RetainDefaultDecimal))
             ELSE decimalArg,
             IF isRemoveExtraZeroArg.t = "undefined" THEN JsBool(TRUE)
             ELSE isRemoveExtraZeroArg)

-----------------------------------------------------------------------------
(* DataFormat.smallNumberFormat, largeNumberFormat, numberFormat, percentFormat *)
(* An operation that can write to an object of its caller returns the pair    *)
(* [res |-> what it returns or throws, opt |-> that object after the call].   *)

SmallDefaultDecimal == 8

SmallLimit == 10

YiDivisor == 100000000

WanDivisor == 10000

PercentScale == 100

\* the default parameter value of smallNumberFormat (line 63)
SmallDefaultOption ==
    OptObject(JsNumber(IntNum(SmallDefaultDecimal)), JsBool(TRUE), JsBool(FALSE),
              JsUndefined, JsUndefined)

\* the default parameter value of largeNumberFormat (lines 94-99)
LargeDefaultOption ==
    OptObject(JsNumber(IntNum(RetainDefaultDecimal)), JsBool(TRUE), JsUndefined,
              JsBool(FALSE), JsBool(FALSE))

\* lines 70-72, n being the number option.decimal converts to. The module is
\* strict-mode code, so the assignment to a property of a primitive throws.
SmallFixChecked(option, n) ==
    IF n.nan \/ NumLess(n, Zero)
    THEN IF option.t = "object"
         THEN [res |-> JsUndefined,
               opt |-> [option EXCEPT !.decimal = JsNumber(IntNum(SmallDefaultDecimal))]]
         ELSE [res |-> Thrown("TypeError"), opt |-> option]
    ELSE [res |-> JsUndefined, opt |-> option]

\* lines 69-73: option.decimal = 8 when it is missing or invalid
SmallFixDecimal(option) ==
    IF ~Truthy(option.prim) THEN [res |-> JsUndefined, opt |-> option]
    ELSE SmallFixChecked(option, ToNumber(option.decimal))

\* lines 76-79
SmallFill(value, option, after, formatValue) ==
    IF Truthy(option.isFillZeroInFront) /\ NumLess(MathAbs(value.num), IntNum(SmallLimit))
    THEN [res |-> JsString(<<"0">> \o formatValue.txt), opt |-> after]
    ELSE [res |-> formatValue, opt |-> after]

\* lines 75-79, fixed being the outcome of lines 69-73; reading a property of
\* null throws
SmallFixed(value, optionArg, fixed) ==
    IF IsThrown(fixed.res) THEN [res |-> fixed.res, opt |-> optionArg]
    ELSE IF fixed.opt.t = "null" THEN [res |-> Thrown("TypeError"), opt |-> optionArg]
    ELSE SmallFill(value, fixed.opt,
             IF optionArg.t = "undefined" THEN optionArg ELSE fixed.opt,
             retainDecimal(value, fixed.opt.decimal, fixed.opt.isRemoveExtraZero))

smallNumberFormat(value, optionArg) ==
    IF TypeOf(value) # "number" THEN [res |-> value, opt |-> optionArg]
    ELSE SmallFixed(value, optionArg,
             SmallFixDecimal(IF optionArg.t = "undefined" THEN SmallDefaultOption
                             ELSE optionArg))

\* x / divisor, for the three divisors of largeNumberFormat (powers of ten)
Divide(x, divisor) == ShiftRight(x, Len(NatToDigits(divisor)) - 1)

\* the unit and the divisor with each boundary given to the smaller unit
LargeUnitExclusive(absValue) ==
    IF NumLess(IntNum(YiDivisor), absValue) THEN [unit |-> <<"Yi">>, divisor |-> YiDivisor]
    ELSE IF NumLess(IntNum(WanDivisor), absValue)
    THEN [unit |-> <<"Wan">>, divisor |-> YiDivisor \div WanDivisor]
    ELSE [unit |-> <<>>, divisor |-> 1]

\* lines 105-117: the unit and the divisor
LargeUnit(absValue) ==
    LET unit1 == IF NumLess(absValue, IntNum(YiDivisor)) THEN "Wan" ELSE "Yi"
        divisor1 == IF NumLess(absValue, IntNum(YiDivisor)) THEN YiDivisor \div WanDivisor
                    ELSE YiDivisor
    IN IF NumLess(absValue, IntNum(divisor1)) THEN [unit |-> <<>>, divisor |-> 1]
       ELSE [unit |-> <<unit1>>, divisor |-> divisor1]

\* the digits of an integer in groups of three from the right
RECURSIVE GroupDigits(_, _)
GroupDigits(t, sep) ==
    IF Len(t) <= 3 THEN t
    ELSE GroupDigits(SubSeq(t, 1, Len(t) - 3), sep) \o <<sep>> \o SubSeq(t, Len(t) - 2, Len(t))

\* Number.prototype.toLocaleString() of an integer, in a locale that groups with sep
ToLocaleString(x, sep) ==
    IF x.nan THEN <<"N", "a", "N">>
    ELSE (IF x.neg THEN <<"-">> ELSE <<>>) \o GroupDigits(DigitsToText(x.int), sep)

\* lines 121-127
AttachThousandSymbol(value, sep) ==
    LET integerPart == SplitFirst(value)
        decimalPart == IF SplitSecond(value) # <<>> THEN <<".">> \o SplitSecond(value) ELSE <<>>
    IN ToLocaleString(StringToNumber(integerPart), sep) \o decimalPart

\* lines 128-134
LargeResult(text, unit, option) ==
    IF Truthy(option.isSplitValueAndUnit) THEN JsValueUnit(text, unit)
    ELSE JsString(text \o unit)

\* lines 121-134
LargeThousand(text, unit, option, sep) ==
    LargeResult(IF Truthy(option.isAttachThousandSymbol) THEN AttachThousandSymbol(text, sep)
                ELSE text,
                unit, option)

\* lines 119-134, sel being the unit and the divisor; reading a property of
\* null throws
LargeScaled(value, sel, option, sep) ==
    IF option.t = "null" THEN Thrown("TypeError")
    ELSE LargeThousand(
             retainDecimal(JsNumber(Divide(value.num, sel.divisor)), option.decimal,
                           option.isRemoveExtraZero).txt,
             sel.unit, option, sep)

largeNumberFormat(value, optionArg, sep) ==
    IF TypeOf(value) # "number" THEN value
    ELSE LargeScaled(value, LargeUnit(MathAbs(value.num)),
             IF optionArg.t = "undefined" THEN LargeDefaultOption ELSE optionArg, sep)

\* The formatOption argument of numberFormat: absent, null, a primitive (prim)
\* or an object whose small and large properties are option arguments.
FormatOption(t, prim, small, large) == [t |-> t, prim |-> prim, small |-> small, large |-> large]

\* formatOption.small || {} and formatOption.large || {}
OrEmpty(option) == IF Truthy(option.prim) THEN option ELSE OptEmpty

\* lines 27-46: the switch on typeof formatOption
NumberExpand(formatOptionArg) ==
    IF TypeOf(formatOptionArg.prim) = "number"
    THEN FormatOption("object", JsObject,
             OptObject(formatOptionArg.prim, JsBool(TRUE), JsBool(FALSE), JsUndefined, JsUndefined),
             OptObject(formatOptionArg.prim, JsBool(TRUE), JsUndefined, JsUndefined, JsUndefined))
    ELSE IF TypeOf(formatOptionArg.prim) = "object" THEN formatOptionArg
    ELSE FormatOption("object", JsObject, OptAbsent, OptAbsent)

\* line 50; the object smallNumberFormat may write to is the caller's when the
\* caller passed an object holding it
NumberSmall(formatOptionArg, r) ==
    [res |-> r.res,
     opt |-> IF TypeOf(formatOptionArg.prim) = "object" /\ Truthy(formatOptionArg.small.prim)
             THEN r.opt ELSE formatOptionArg.small]

\* the test of line 49 with the limit itself taken for a small number
NumberIsSmallInclusive(value) == ~NumLess(IntNum(SmallLimit), MathAbs(ToNumber(value)))

\* lines 48-49: absValue < 10
NumberIsSmall(value) == NumLess(MathAbs(ToNumber(value)), IntNum(SmallLimit))

\* lines 48-53; reading a property of null throws
NumberDispatch(value, formatOptionArg, formatOption, sep) ==
    IF formatOption.t = "null" THEN [res |-> Thrown("TypeError"), opt |-> formatOptionArg.small]
    ELSE IF NumberIsSmall(value)
    THEN NumberSmall(formatOptionArg, smallNumberFormat(value, OrEmpty(formatOption.small)))
    ELSE [res |-> largeNumberFormat(value, OrEmpty(formatOption.large), sep),
          opt |-> formatOptionArg.small]

numberFormat(value, formatOptionArg, sep) ==
    NumberDispatch(value, formatOptionArg, NumberExpand(formatOptionArg), sep)

\* lines 192-199
PercentSymbol(value, isAttachSymbol) ==
    IF Truthy(isAttachSymbol) /\ ~IsZero(value.num)
    THEN IF NumLess(Zero, value.num) THEN <<"+">> ELSE <<"-">>
    ELSE <<>>

percentFormat(value, isAttachSymbolArg) ==
    IF TypeOf(value) # "number" THEN value
    ELSE JsString(
             PercentSymbol(value, IF isAttachSymbolArg.t = "undefined" THEN JsBool(TRUE)
                                  ELSE isAttachSymbolArg)
             \o retainDecimal(
                    JsNumber(ShiftLeft(MathAbs(value.num), Len(NatToDigits(PercentScale)) - 1)),
                    JsNumber(IntNum(2)), JsUndefined).txt
             \o <<"%">>)

-----------------------------------------------------------------------------
(* DataFormat.datetimeFormat *)

\* The calendar fields of new Date(ms) in a time zone offsetMin minutes east of
\* UTC (getFullYear, getMonth() + 1, getDate, getHours, getMinutes, getSeconds),
\* by the proleptic Gregorian calendar.
DateFields(ms, offsetMin) ==
    LET localMs == ms + offsetMin * 60000
        days == localMs \div 86400000
        inDay == localMs % 86400000
        z == days + 719468
        era == z \div 146097
        doe == z - era * 146097
        yoe == (doe - doe \div 1460 + doe \div 36524 - doe \div 146096) \div 365
        doy == doe - (365 * yoe + yoe \div 4 - yoe \div 100)
        mp == (5 * doy + 2) \div 153
        month == IF mp < 10 THEN mp + 3 ELSE mp - 9
    IN [yyyy |-> yoe + era * 400 + (IF month <= 2 THEN 1 ELSE 0),
        M |-> month,
        d |-> doy - (153 * mp + 2) \div 5 + 1,
        h |-> inDay \div 3600000,
        m |-> (inDay % 3600000) \div 60000,
        s |-> (inDay % 60000) \div 1000]

\* index of the first occurrence of the text key in t, 0 when there is none
FindText(t, key) ==
    LET hits == {i \in 1..(Len(t) - Len(key) + 1) : SubSeq(t, i, i + Len(key) - 1) = key}
    IN IF hits = {} THEN 0 ELSE CHOOSE i \in hits : \A j \in hits : i <= j

\* String.prototype.replace(key, rep) with a string key: the first occurrence only
ReplaceFirst(t, key, rep) ==
    LET i == FindText(t, key)
    IN IF i = 0 THEN t
       ELSE SubSeq(t, 1, i - 1) \o rep \o SubSeq(t, i + Len(key), Len(t))

\* lines 229-232: the two-character form of a field
TwoDigits(time) ==
    smallNumberFormat(JsNumber(IntNum(time)),
        OptObject(JsNumber(Zero), JsUndefined, JsBool(TRUE), JsUndefined, JsUndefined)).res.txt

DefaultExpress ==
    <<"y", "y", "y", "y", "M", "M", "d", "d", " ", "h", "h", ":", "m", "m", ":", "s", "s">>

\* the table from token to text, two and num being the two forms of each field
DatetimeEntries(f, two, num) ==
    <<[key |-> <<"y", "y", "y", "y">>, text |-> num[f.yyyy]],
      [key |-> <<"M", "M">>, text |-> two[f.M]],
      [key |-> <<"d", "d">>, text |-> two[f.d]],
      [key |-> <<"h", "h">>, text |-> two[f.h]],
      [key |-> <<"m", "m">>, text |-> two[f.m]],
      [key |-> <<"s", "s">>, text |-> two[f.s]],
      [key |-> <<"y", "y">>, text |-> SubstrFrom(num[f.yyyy], 2)],
      [key |-> <<"M">>, text |-> num[f.M]],
      [key |-> <<"d">>, text |-> num[f.d]],
      [key |-> <<"h">>, text |-> num[f.h]],
      [key |-> <<"m">>, text |-> num[f.m]],
      [key |-> <<"s">>, text |-> num[f.s]]>>

\* lines 219-232
DatetimeTable(f) ==
    DatetimeEntries(f,
        [time \in {f.M, f.d, f.h, f.m, f.s} |-> TwoDigits(time)],
        [time \in {f.yyyy, f.M, f.d, f.h, f.m, f.s} |-> NumberToString(IntNum(time))])

\* lines 234-238: the tokens replaced in order, each once
RECURSIVE ReplaceTokens(_, _, _)
ReplaceTokens(formatValue, table, i) ==
    IF i > Len(table) THEN formatValue
    ELSE ReplaceTokens(ReplaceFirst(formatValue, table[i].key, table[i].text), table, i + 1)

datetimeFormat(value, expressArg, offsetMin) ==
    LET express == IF expressArg.t = "undefined" THEN DefaultExpress ELSE expressArg.txt
    IN IF TypeOf(value) # "number" THEN value
       ELSE JsString(ReplaceTokens(express,
                DatetimeTable(DateFields(NumToInt(value.num), offsetMin)), 1))

-----------------------------------------------------------------------------
(* clone *)
(* A value is a node: a primitive leaf, a function (id is its identity), or   *)
(* an object or array (id is its identity, kids its own enumerable properties *)
(* in order; the keys of an array are its indices "0", "1", ...).             *)

Leaf(t, num, txt) == [t |-> t, id |-> 0, num |-> num, txt |-> txt, kids |-> <<>>]

NullLeaf == Leaf("null", NaN, <<>>)

UndefinedLeaf == Leaf("undefined", NaN, <<>>)

FunctionNode(f) == [t |-> "function", id |-> f, num |-> NaN, txt |-> <<>>, kids |-> <<>>]

Container(t, kids) == [t |-> t, id |-> 0, num |-> NaN, txt |-> <<>>, kids |-> kids]

IsContainer(n) == n.t \in {"object", "array"}

HasProp(n, key) == \E i \in 1..Len(n.kids) : n.kids[i].k = key

\* n[key]
GetProp(n, key) ==
    IF HasProp(n, key) THEN n.kids[CHOOSE i \in 1..Len(n.kids) : n.kids[i].k = key].v
    ELSE UndefinedLeaf

\* n[key] = value
SetProp(n, key, value) ==
    IF HasProp(n, key)
    THEN [n EXCEPT !.kids = [i \in 1..Len(n.kids) |->
                                IF n.kids[i].k = key THEN [k |-> key, v |-> value]
                                ELSE n.kids[i]]]
    ELSE [n EXCEPT !.kids = Append(n.kids, [k |-> key, v |-> value])]

RECURSIVE JsonValue(_)
RECURSIVE JsonKids(_, _)

\* What JSON.stringify writes for a value inside a document: a function or
\* undefined is left out of an object and written null in an array, NaN is
\* written null, a number as its decimal text; the text holds no identity.
JsonValue(n) ==
    IF IsContainer(n) THEN [n EXCEPT !.id = 0, !.kids = JsonKids(n.kids, n.t = "array")]
    ELSE IF n.t = "number"
    THEN IF n.num.nan THEN NullLeaf
         ELSE Leaf("number", StringToNumber(NumberToString(n.num)), <<>>)
    ELSE n

JsonKids(kids, inArray) ==
    IF kids = <<>> THEN <<>>
    ELSE IF Head(kids).v.t \in {"function", "undefined"}
    THEN (IF inArray THEN <<[k |-> Head(kids).k, v |-> NullLeaf]>> ELSE <<>>)
             \o JsonKids(Tail(kids), inArray)
    ELSE <<[k |-> Head(kids).k, v |-> JsonValue(Head(kids).v)]>> \o JsonKids(Tail(kids), inArray)

\* JSON.stringify(source): undefined for a function or undefined
JSONStringify(source) ==
    IF source.t \in {"function", "undefined"} THEN UndefinedLeaf ELSE JsonValue(source)

RECURSIVE NodeCount(_)
RECURSIVE KidsCount(_)

\* the number of objects and arrays of a value
NodeCount(n) == IF IsContainer(n) THEN 1 + KidsCount(n.kids) ELSE 0

KidsCount(kids) == IF kids = <<>> THEN 0 ELSE NodeCount(Head(kids).v) + KidsCount(Tail(kids))

RECURSIVE Allocate(_, _)
RECURSIVE AllocateKids(_, _)

\* every object and array of n allocated in turn, the allocator standing at base
Allocate(n, base) ==
    IF IsContainer(n) THEN [n EXCEPT !.id = base, !.kids = AllocateKids(n.kids, base + 1)]
    ELSE n

AllocateKids(kids, base) ==
    IF kids = <<>> THEN <<>>
    ELSE <<[k |-> Head(kids).k, v |-> Allocate(Head(kids).v, base)]>>
             \o AllocateKids(Tail(kids), base + NodeCount(Head(kids).v))

\* JSON.parse(content): the document's objects and arrays are new ones
JSONParse(content, base) == Allocate(content, base)

RECURSIVE processPropertyIsFunction(_, _)
RECURSIVE ProcessKeys(_, _, _)
RECURSIVE ProcessItems(_, _, _)

\* lines 6-27; the target after the walk
processPropertyIsFunction(source, target) ==
    IF ~IsContainer(source) THEN target ELSE ProcessKeys(source, target, 1)

\* lines 10-26: the for-in loop from the i-th key on
ProcessKeys(source, target, i) ==
    IF i > Len(source.kids) THEN target
    ELSE LET key == source.kids[i].k
             value == source.kids[i].v
             next ==
                 IF value.t = "function" THEN SetProp(target, key, value)
                 ELSE IF value.t = "array"
                 THEN SetProp(target, key, ProcessItems(value, GetProp(target, key), 1))
                 ELSE IF value.t = "object"
                 THEN SetProp(target, key, processPropertyIsFunction(value, GetProp(target, key)))
                 ELSE target
         IN ProcessKeys(source, next, i + 1)

\* lines 19-21: value.forEach from the index-th item on
ProcessItems(value, targetArray, index) ==
    IF index > Len(value.kids) THEN targetArray
    ELSE LET key == value.kids[index].k
         IN ProcessItems(value,
                SetProp(targetArray, key,
                    processPropertyIsFunction(value.kids[index].v, GetProp(targetArray, key))),
                index + 1)

\* lines 34-40; base is where the allocator stands
clone(source, base) ==
    LET content == JSONStringify(source)
    IN IF content.t = "undefined" THEN [thrown |-> TRUE, tree |-> UndefinedLeaf]
       ELSE [thrown |-> FALSE,
             tree |-> processPropertyIsFunction(source, JSONParse(content, base))]

-----------------------------------------------------------------------------
(* The arguments the callers pass *)

MaxFracLen == 2

MaxDecimal == 3

LargeDecimal == 22

MaxOptDecimal == 2

MaxDepth == 2

IntParts == {0, 9, 10, 9999, 10000, 99999999, 100000000}

\* the digits before the last one: a zero after the point, a carry
InnerDigits == {0, 9}

\* the last digit: rounded down, a tie, rounded up
LastDigits == {4, 5, 9}

FracParts ==
    {<<>>} \cup UNION {{f \o <<l>> : f \in [1..(n - 1) -> InnerDigits], l \in LastDigits} :
                          n \in 1..MaxFracLen}

\* Division by 10^4 or 10^8 and multiplication by 100 move the decimal point of
\* the printed digits exactly when the operand is itself exact in binary (an
\* integer, or an integer and a half); below 10^4 the divisor is 1. The numbers
\* drawn are those for which every operation of the formatters is exact.
Numbers ==
    {x \in {MkNum(neg, NatToDigits(i), f) : neg \in BOOLEAN, i \in IntParts, f \in FracParts} :
        MagLess(x, IntNum(WanDivisor)) \/ x.frac \in {<<>>, <<5>>}}

ExactNumbers == {x \in Numbers : x.frac \in {<<>>, <<5>>}}

NonNumbers ==
    {JsString(<<"5">>), JsString(<<"a", "b">>), JsBool(TRUE), JsNull, JsUndefined, JsObject}

Values == {JsNumber(x) : x \in Numbers \cup {NaN}} \cup NonNumbers

ExactValues == {JsNumber(x) : x \in ExactNumbers} \cup NonNumbers

AgainValues ==
    {JsNumber(MkNum(FALSE, <<2>>, <<5, 5>>)), JsNumber(IntNum(9999)), JsString(<<"5">>)}

Flags == {JsUndefined, JsBool(TRUE), JsBool(FALSE)}

NotNumeric == {JsUndefined, JsNumber(NaN), JsString(<<"a", "b">>)}

Decimals == NotNumeric \cup {JsNumber(IntNum(k)) : k \in (-1..MaxDecimal) \cup {LargeDecimal}}

OptionDecimals ==
    {JsUndefined, JsString(<<"a", "b">>)} \cup {JsNumber(IntNum(k)) : k \in -1..MaxOptDecimal}

SmallOptions ==
    {OptAbsent, OptNull, OptPrimitive(JsNumber(IntNum(3))), OptPrimitive(JsString(<<"a">>)),
     OptPrimitive(JsBool(FALSE))}
    \cup {OptObject(d, r, f, JsUndefined, JsUndefined) :
             d \in OptionDecimals, r \in Flags, f \in {JsUndefined, JsBool(TRUE)}}

LargeOptions ==
    {OptAbsent, OptNull, OptPrimitive(JsNumber(IntNum(3)))}
    \cup {OptObject(d, r, JsUndefined, s, th) :
             d \in OptionDecimals, r \in {JsUndefined, JsBool(FALSE)},
             s \in {JsUndefined, JsBool(TRUE)}, th \in {JsUndefined, JsBool(TRUE)}}

FormatOptions ==
    {FormatOption("undefined", JsUndefined, OptAbsent, OptAbsent),
     FormatOption("null", JsNull, OptAbsent, OptAbsent),
     FormatOption("primitive", JsString(<<"a">>), OptAbsent, OptAbsent),
     FormatOption("primitive", JsBool(TRUE), OptAbsent, OptAbsent)}
    \cup {FormatOption("primitive", d, OptAbsent, OptAbsent) : 
             d \in {JsNumber(NaN)} \cup {JsNumber(IntNum(k)) : k \in -1..MaxOptDecimal}}
    \cup {FormatOption("object", JsObject, sm, lg) :
             sm \in {OptAbsent, OptNull, OptEmpty,
                     OptObject(JsNumber(IntNum(1)), JsBool(FALSE), JsBool(TRUE), JsUndefined, JsUndefined),
                     OptObject(JsNumber(IntNum(-1)), JsUndefined, JsUndefined, JsUndefined, JsUndefined)},
             lg \in {OptAbsent, OptEmpty,
                     OptObject(JsNumber(IntNum(1)), JsBool(FALSE), JsUndefined, JsBool(TRUE), JsBool(TRUE)),
                     OptObject(JsUndefined, JsUndefined, JsUndefined, JsUndefined, JsBool(TRUE))}}

Timestamps == {IntNum(k) : k \in {0, -1, 999, 86399999, 86400000, 1000000000, 2000000000, -2000000000}}

Expresses ==
    {JsUndefined,
     JsString(<<"y", "y", "y", "y", "-", "M", "M", "-", "d", "d">>),
     JsString(<<"y", "y", "/", "M", "/", "d", " ", "h", ":", "m", ":", "s">>),
     JsString(<<"h", "h", " ", "h", "h">>)}

Leaves ==
    {Leaf("number", IntNum(1), <<>>), Leaf("string", NaN, <<"a">>), NullLeaf, FunctionNode(1)}

RECURSIVE Trees(_)
\* the values of depth at most d built from the leaves, objects and arrays
Trees(d) ==
    IF d = 0 THEN Leaves
    ELSE Leaves
         \cup {Container("object", <<[k |-> "a", v |-> t]>>) : t \in Trees(d - 1)}
         \cup {Container("object", <<[k |-> "g", v |-> FunctionNode(2)], [k |-> "a", v |-> t]>>) :
                  t \in Trees(d - 1)}
         \cup {Container("array", <<[k |-> "0", v |-> t]>>) : t \in Trees(d - 1)}
         \cup {Container("array", <<[k |-> "0", v |-> FunctionNode(2)], [k |-> "1", v |-> t]>>) :
                  t \in Trees(d - 1)}

\* the caller's values, its objects and arrays allocated from 1 on
Sources == {Allocate(t, 1) : t \in Trees(MaxDepth)}

-----------------------------------------------------------------------------
(* The calls *)

Call(op, value, decimal, flag, fmt, express) ==
    [op |-> op, value |-> value, decimal |-> decimal, flag |-> flag, fmt |-> fmt,
     express |-> express]

Args(small, large, src) == [small |-> small, large |-> large, source |-> src]

NoArgs == Args(OptAbsent, OptAbsent, UndefinedLeaf)

Returned(v) == [val |-> v, tree |-> UndefinedLeaf]

NoCall == Call("none", JsUndefined, JsUndefined, JsUndefined, JsUndefined, JsUndefined)

\* no call is under way: the caller holds nothing of a previous call
Idle == call = NoCall

\* the runtimes: the group separator of the default locale and the minutes the
\* local time is ahead of UTC
Environments == {[locale |-> ",", tz |-> 0], [locale |-> ".", tz |-> 480]}

Init ==
    /\ call = NoCall
    /\ argPre = NoArgs
    /\ argPost = NoArgs
    /\ result = Returned(JsUndefined)
    /\ \E env \in Environments : locale = env.locale /\ tz = env.tz

RetainDecimal ==
    /\ Idle
    /\ \E value \in Values, decimal \in Decimals, flag \in Flags :
        /\ call' = Call("retainDecimal", value, decimal, flag, JsUndefined, JsUndefined)
        /\ argPre' = NoArgs
        /\ argPost' = NoArgs
        /\ result' = Returned(retainDecimal(value, decimal, flag))
        /\ UNCHANGED <<locale, tz>>

SmallCall(value, option) ==
    LET r == smallNumberFormat(value, option)
    IN /\ call' = Call("smallNumberFormat", value, JsUndefined, JsUndefined, JsUndefined, JsUndefined)
       /\ argPre' = Args(option, OptAbsent, UndefinedLeaf)
       /\ argPost' = Args(r.opt, OptAbsent, UndefinedLeaf)
       /\ result' = Returned(r.res)
       /\ UNCHANGED <<locale, tz>>

SmallNumberFormat ==
    /\ Idle
    /\ \E value \in Values, option \in SmallOptions : SmallCall(value, option)

\* the caller passes the option object of the previous call once more
SmallNumberFormatAgain ==
    /\ call.op \in {"smallNumberFormat", "numberFormat"}
    /\ argPost.small.t = "object"
    /\ \E value \in AgainValues : SmallCall(value, argPost.small)

\* the caller drops the result and the objects of the call
Discard ==
    /\ ~Idle
    /\ call' = NoCall
    /\ argPre' = NoArgs
    /\ argPost' = NoArgs
    /\ result' = Returned(JsUndefined)
    /\ UNCHANGED <<locale, tz>>

LargeNumberFormat ==
    /\ Idle
    /\ \E value \in Values, option \in LargeOptions :
        /\ call' = Call("largeNumberFormat", value, JsUndefined, JsUndefined, JsUndefined, JsUndefined)
        /\ argPre' = Args(OptAbsent, option, UndefinedLeaf)
        /\ argPost' = Args(OptAbsent, option, UndefinedLeaf)
        /\ result' = Returned(largeNumberFormat(value, option, locale))
        /\ UNCHANGED <<locale, tz>>

NumberFormat ==
    /\ Idle
    /\ \E value \in Values, formatOption \in FormatOptions :
        LET r == numberFormat(value, formatOption, locale)
        IN /\ call' = Call("numberFormat", value, JsUndefined, JsUndefined, formatOption.prim, JsUndefined)
           /\ argPre' = Args(formatOption.small, formatOption.large, UndefinedLeaf)
           /\ argPost' = Args(r.opt, formatOption.large, UndefinedLeaf)
           /\ result' = Returned(r.res)
           /\ UNCHANGED <<locale, tz>>

PercentFormat ==
    /\ Idle
    /\ \E value \in ExactValues, flag \in Flags :
        /\ call' = Call("percentFormat", value, JsUndefined, flag, JsUndefined, JsUndefined)
        /\ argPre' = NoArgs
        /\ argPost' = NoArgs
        /\ result' = Returned(percentFormat(value, flag))
        /\ UNCHANGED <<locale, tz>>

DatetimeFormat ==
    /\ Idle
    /\ \E value \in {JsNumber(x) : x \in Timestamps} \cup NonNumbers, express \in Expresses :
        /\ call' = Call("datetimeFormat", value, JsUndefined, JsUndefined, JsUndefined, express)
        /\ argPre' = NoArgs
        /\ argPost' = NoArgs
        /\ result' = Returned(datetimeFormat(value, express, tz))
        /\ UNCHANGED <<locale, tz>>

Clone ==
    /\ Idle
    /\ \E src \in Sources :
        LET r == clone(src, NodeCount(src) + 1)
        IN /\ call' = Call("clone", JsUndefined, JsUndefined, JsUndefined, JsUndefined, JsUndefined)
           /\ argPre' = Args(OptAbsent, OptAbsent, src)
           /\ argPost' = Args(OptAbsent, OptAbsent, src)
           /\ result' = [val |-> IF r.thrown THEN Thrown("SyntaxError") ELSE JsUndefined,
                         tree |-> r.tree]
           /\ UNCHANGED <<locale, tz>>

Next ==
    \/ RetainDecimal
    \/ SmallNumberFormat
    \/ SmallNumberFormatAgain
    \/ LargeNumberFormat
    \/ NumberFormat
    \/ PercentFormat
    \/ DatetimeFormat
    \/ Clone
    \/ Discard

Spec == Init /\ [][Next]_vars

-----------------------------------------------------------------------------
(* The claims *)

Formatters ==
    {"numberFormat", "smallNumberFormat", "largeNumberFormat", "retainDecimal", "percentFormat"}

\* the value of the call under way is a number other than NaN
NumericCall == call.value.t = "number" /\ ~call.value.num.nan

\* the property names the callers' values use, and the paths made of them
Keys == {"a", "g", "0", "1"}

Paths == UNION {[1..n -> Keys] : n \in 0..(MaxDepth + 1)}

\* the value found at a path of names from n, undefined when there is none
RECURSIVE At(_, _)
At(n, path) == IF path = <<>> THEN n ELSE At(GetProp(n, Head(path)), Tail(path))

\* the identities of the objects and arrays of a value
RECURSIVE NodeIds(_)
NodeIds(n) ==
    IF IsContainer(n) THEN {n.id} \cup UNION {NodeIds(n.kids[i].v) : i \in 1..Len(n.kids)}
    ELSE {}

\* C1: in the structure clone returns, every place where the source holds a
\* function, at any depth and also directly as an element of an array, holds
\* that very function.
FunctionsKeptByReference ==
    (call.op = "clone" /\ ~IsThrown(result.val)) =>
        \A p \in Paths :
            At(argPre.source, p).t = "function" => At(result.tree, p) = At(argPre.source, p)

\* C2: every object and array of the structure clone returns is a new one,
\* distinct from every object and array of the source, and every leaf of the
\* result that is not a function equals the leaf at the same path of the source.
CloneFreshAndEqual ==
    (call.op = "clone" /\ ~IsThrown(result.val)) =>
        /\ NodeIds(result.tree) \cap NodeIds(argPre.source) = {}
        /\ \A p \in Paths :
               (/\ ~IsContainer(At(result.tree, p))
                /\ At(result.tree, p).t \notin {"function", "undefined"})
                   => At(argPre.source, p) = At(result.tree, p)

\* the digits of x cut after d fraction digits and rounded half up on the next
HalfUpDigits(x, d) ==
    LET kept == x.int \o [i \in 1..d |-> IF i <= Len(x.frac) THEN x.frac[i] ELSE 0]
    IN IF Len(x.frac) > d /\ x.frac[d + 1] >= 5 THEN Increment(kept) ELSE kept

\* the decimal string of x rounded half up to exactly d fraction digits
HalfUpText(x, d) ==
    DigitsToText(StripLeadingZeros(SubSeq(HalfUpDigits(x, d), 1, Len(HalfUpDigits(x, d)) - d)))
        \o <<".">>
        \o DigitsToText(SubSeq(HalfUpDigits(x, d), Len(HalfUpDigits(x, d)) - d + 1,
                               Len(HalfUpDigits(x, d))))

\* decimal is an integer >= 1 and the flag isRemoveExtraZero is false
CutCall ==
    /\ call.op = "retainDecimal"
    /\ NumericCall
    /\ call.decimal.t = "number" /\ ~call.decimal.num.nan
    /\ NumLess(Zero, call.decimal.num)
    /\ call.flag = JsBool(FALSE)

\* C3: for a value >= 0 whose decimal text is plain and an integer decimal >= 1,
\* retainDecimal(value, decimal, false) is the decimal string of the value
\* rounded half up on the digit after the cut, with exactly decimal fraction
\* digits and a leading "0." when the integer part is zero.
RetainRoundsHalfUp ==
    (/\ CutCall
     /\ ~call.value.num.neg
     /\ \A i \in 1..Len(NumberToString(call.value.num)) :
            NumberToString(call.value.num)[i] # "e")
        => result.val = JsString(HalfUpText(call.value.num, NumToInt(call.decimal.num)))

\* C4: for a value v < 0 and an integer decimal >= 1, whenever v rounded half up
\* on its magnitude is not zero, retainDecimal(v, decimal, false) is "-"
\* followed by retainDecimal(-v, decimal, false).
RetainNegativeMirrorsPositive ==
    (/\ CutCall
     /\ call.value.num.neg
     /\ ~IsZero(StringToNumber(
            retainDecimal(JsNumber(MathAbs(call.value.num)), call.decimal, call.flag).txt)))
        => result.val =
               JsString(<<"-">> \o retainDecimal(JsNumber(MathAbs(call.value.num)),
                                               call.decimal, call.flag).txt)

\* C5: no call of numberFormat, smallNumberFormat, largeNumberFormat,
\* retainDecimal or percentFormat raises an error, whatever the value and the
\* option argument (absent, null, a number, a string, a boolean or an object).
FormattersNeverThrow == call.op \in Formatters => ~IsThrown(result.val)

\* C6: a value that is not of type number is returned as it is by each of the six
\* formatters, whatever valid options are passed (null is no valid formatOption
\* of numberFormat); for numberFormat through either branch of the dispatch.
NonNumberPassthrough ==
    (/\ call.op \in Formatters \cup {"datetimeFormat"}
     /\ TypeOf(call.value) # "number"
     /\ call.fmt.t # "null")
        => result.val = call.value

\* numberFormat handed back a string that is not a number, through the large branch
NonNumberPassthroughWitness ==
    /\ call.op = "numberFormat"
    /\ call.value = JsString(<<"a", "b">>)
    /\ call.fmt.t = "object"
    /\ argPre.large.t = "object"
    /\ result.val = call.value

\* C7: after every call the objects the caller supplied (the source of clone, the
\* option records of the formatters) have the fields and values they had before.
CallerObjectsUnchanged == argPost = argPre

\* the option largeNumberFormat works with: its default when none is passed
LargeOptionUsed == IF argPre.large.t = "undefined" THEN LargeDefaultOption ELSE argPre.large

\* the unit table of largeNumberFormat: a boundary belongs to the larger unit
UnitTable(absValue) ==
    IF ~MagLess(absValue, IntNum(YiDivisor)) THEN [unit |-> <<"Yi">>, divisor |-> YiDivisor]
    ELSE IF ~MagLess(absValue, IntNum(WanDivisor))
    THEN [unit |-> <<"Wan">>, divisor |-> WanDivisor]
    ELSE [unit |-> <<>>, divisor |-> 1]

\* retainDecimal(value / divisor, decimal, isRemoveExtraZero) for the call under way
ScaledText ==
    retainDecimal(JsNumber(Divide(call.value.num, UnitTable(MathAbs(call.value.num)).divisor)),
                  LargeOptionUsed.decimal, LargeOptionUsed.isRemoveExtraZero).txt

\* the record { value, unit } or the string value + unit
Shaped(text, unit) ==
    IF Truthy(LargeOptionUsed.isSplitValueAndUnit) THEN JsValueUnit(text, unit)
    ELSE JsString(text \o unit)

\* a numeric value and an option that is absent or an object
LargeCall ==
    /\ call.op = "largeNumberFormat"
    /\ NumericCall
    /\ argPre.large.t \in {"undefined", "object"}

\* C8 as stated: largeNumberFormat takes the unit and the divisor from the unit
\* table and returns { value, unit } when isSplitValueAndUnit is true and
\* value + unit otherwise, value being retainDecimal(value / divisor, decimal,
\* isRemoveExtraZero).
LargeUnitAndShape ==
    LargeCall => result.val = Shaped(ScaledText, UnitTable(MathAbs(call.value.num)).unit)

\* C8 as amended: the same, value being retainDecimal(value / divisor, decimal,
\* isRemoveExtraZero) when isAttachThousandSymbol is not set and, when it is set,
\* that text with its integer part replaced by Number(integerPart).toLocaleString().
LargeUnitAndShapeWithThousands ==
    LargeCall =>
        result.val =
            Shaped(IF Truthy(LargeOptionUsed.isAttachThousandSymbol)
                   THEN ToLocaleString(StringToNumber(SplitFirst(ScaledText)), locale)
                            \o (IF SplitSecond(ScaledText) # <<>>
                                THEN <<".">> \o SplitSecond(ScaledText) ELSE <<>>)
                   ELSE ScaledText,
                   UnitTable(MathAbs(call.value.num)).unit)

\* a value shown split with the unit "Wan", its integer part grouped
LargeUnitAndShapeWitness ==
    /\ LargeCall
    /\ Truthy(argPre.large.isAttachThousandSymbol)
    /\ result.val.t = "valueUnit"
    /\ result.val.unit = <<"Wan">>
    /\ \E i \in 1..Len(result.val.txt) : result.val.txt[i] = locale

\* the records a bare-number option n stands for
ExpandedSmall(n) == OptObject(n, JsBool(TRUE), JsBool(FALSE), JsUndefined, JsUndefined)

ExpandedLarge(n) == OptObject(n, JsBool(TRUE), JsUndefined, JsUndefined, JsUndefined)

\* smallNumberFormat(v, small) when abs(v) < 10, largeNumberFormat(v, large) when
\* abs(v) >= 10
Dispatched(v, small, large) ==
    IF MagLess(v.num, IntNum(SmallLimit)) THEN smallNumberFormat(v, small).res
    ELSE largeNumberFormat(v, large, locale)

\* C9: for a numeric v and a structured option record opt, whose small and large
\* may be absent, numberFormat(v, opt) is smallNumberFormat(v, opt.small) when
\* abs(v) < 10 and largeNumberFormat(v, opt.large) when abs(v) >= 10; for a
\* bare-number option n it is the same dispatch on the records
\* {decimal: n, isRemoveExtraZero: true, isFillZeroInFront: false} and
\* {decimal: n, isRemoveExtraZero: true}.
NumberFormatDispatches ==
    (call.op = "numberFormat" /\ NumericCall) =>
        /\ (call.fmt.t = "object" /\ argPre.small.t # "null" /\ argPre.large.t # "null")
               => result.val = Dispatched(call.value, argPre.small, argPre.large)
        /\ call.fmt.t = "number"
               => result.val = Dispatched(call.value, ExpandedSmall(call.fmt),
                                          ExpandedLarge(call.fmt))

\* numberFormat(10, {small: {decimal: 1, isRemoveExtraZero: false, ...}}) took
\* the large branch with the absent large option
NumberFormatDispatchesWitness ==
    /\ call.op = "numberFormat"
    /\ call.value = JsNumber(IntNum(SmallLimit))
    /\ call.fmt.t = "object"
    /\ argPre.small.t = "object" /\ argPre.small.decimal = JsNumber(IntNum(1))
    /\ argPre.large.t = "undefined"
    /\ result.val = JsString(<<"1", "0">>)

\* the unit and the numeric part of what largeNumberFormat returned
ShownUnit ==
    IF result.val.t = "valueUnit" THEN result.val.unit
    ELSE IF result.val.txt # <<>> /\ result.val.txt[Len(result.val.txt)] \in {"Yi", "Wan"}
    THEN <<result.val.txt[Len(result.val.txt)]>>
    ELSE <<>>

ShownNumber ==
    IF result.val.t = "valueUnit" THEN result.val.txt
    ELSE SubSeq(result.val.txt, 1, Len(result.val.txt) - Len(ShownUnit))

\* C10: the numeric part largeNumberFormat shows with the unit "Wan" or with the
\* empty unit is below 10,000 in magnitude, for every numeric value and every
\* decimal setting.
LargeRoundingKeepsUnit ==
    (/\ call.op = "largeNumberFormat"
     /\ NumericCall
     /\ ~IsThrown(result.val)
     /\ ~Truthy(argPre.large.isAttachThousandSymbol)
     /\ ShownUnit # <<"Yi">>)
        => MagLess(StringToNumber(ShownNumber), IntNum(WanDivisor))

====
